---- MODULE Spec2Model ----
(***************************************************************************)
(* A model of octonag/configuration.py: the settings object built at       *)
(* import time, the process-wide sets `blocked` and `mapped`, and the      *)
(* decorators (restrict, manually_resolve, with_token, with_credentials,   *)
(* repositories, debug), get_header, get_slack_token and the               *)
(* repository_generator generator.                                         *)
(***************************************************************************)
EXTENDS Integers, Sequences, FiniteSets, TLC

VARIABLES status, Configuration, blocked, mapped, blockLogs, mapLogs, last, gens

vars == <<status, Configuration, blocked, mapped, blockLogs, mapLogs, last, gens>>

(***************************************************************************)
(* Bounds of the model.                                                    *)
(***************************************************************************)
\* user names are 1..NumNames
NumNames == 3
\* a configured whitelist or blacklist holds at most MaxListLen names
MaxListLen == 2
\* a repository mapping has at most MaxOwners owners ...
MaxOwners == 2
\* ... each with at most MaxRepos repositories
MaxRepos == 2
\* log entries per name kept by the model (the code's log is unbounded)
MaxLog == 2

Names == 1..NumNames

\* Python's None, where the value is otherwise a string
None == "None"
\* an attribute that _config.__init__ never assigned
Unset == "<unset>"

(***************************************************************************)
(* Values of the YAML file: a key is missing, null, a list or a mapping.   *)
(***************************************************************************)
Missing == [k |-> "missing"]
Null == [k |-> "null"]
List(s) == [k |-> "list", v |-> s]
Dict(f) == [k |-> "dict", v |-> f]
SetOf(S) == [k |-> "set", v |-> S]

Range(s) == {s[i] : i \in DOMAIN s}

\* the names a..b as a list, in order
Interval(a, b) == [i \in 1..(b - a + 1) |-> a + i - 1]

\* the lists of names a configuration file may give for whitelist / blacklist
NameLists ==
    {List(<<>>)} \cup
    UNION {{List(Interval(a, b)) : b \in {c \in Names : c >= a /\ c - a < MaxListLen}} :
           a \in Names}

\* the manual user maps: none, an empty one, one entry, a chain 1 -> 2 -> 3 ...
UserMaps ==
    {Null, Dict(<<>>)} \cup
    {Dict([n \in 1..m |-> n + 1]) : m \in 1..(NumNames - 1)}

\* a repository mapping is the sequence of its (owner, repositories) items in
\* the mapping's iteration order; owner o's repositories are <<o, 1>>, <<o, 2>>, ...
RepoList(o, n) == [j \in 1..n |-> <<o, j>>]
RepoItems(lens) == [i \in DOMAIN lens |-> [owner |-> i, repos |-> RepoList(i, lens[i])]]
RepoMaps ==
    {Dict(RepoItems(lens)) : lens \in UNION {[1..n -> 0..MaxRepos] : n \in 0..MaxOwners}}

\* owners used as `organization`; MaxOwners + 1 is never configured
Owners == 1..(MaxOwners + 1)

(***************************************************************************)
(* Python truthiness of a configuration value (`x and ...`, `if x`).       *)
(***************************************************************************)
\* the test written `x is not None` instead of `x`
TruthyUnlessNone(x) == x.k \notin {"null", "missing"}

Truthy(x) ==
    CASE x.k = "list" -> Len(x.v) > 0
      [] x.k = "set" -> x.v # {}
      [] x.k = "dict" -> DOMAIN x.v # {}
      [] OTHER -> FALSE

\* configs['whitelist'] and {*configs['whitelist']}
NormalizeList(x) == IF Truthy(x) THEN SetOf(Range(x.v)) ELSE x

(***************************************************************************)
(* The inputs of _config.__init__: the environment and the parsed file.    *)
(***************************************************************************)
Envs ==
    [GITHUB_API_TOKEN : {None, "gh-token"}, SLACK_API_TOKEN : {None, "slack-token"},
     JIRA_USER : {None, "jira-user"}, JIRA_PASS : {None, "jira-pass"},
     DEBUG_UID : {None, "U-debug"}]

FullEnv ==
    [GITHUB_API_TOKEN |-> "gh-token", SLACK_API_TOKEN |-> "slack-token",
     JIRA_USER |-> "jira-user", JIRA_PASS |-> "jira-pass", DEBUG_UID |-> "U-debug"]

BaseRepos == Dict(RepoItems([i \in 1..MaxOwners |-> i]))

BaseFile ==
    [use_jira |-> FALSE, manually_resolve_users |-> Null, repositories |-> BaseRepos,
     whitelist |-> Null, blacklist |-> Null]

\* every environment, with and without Jira, with a key missing or null
CredentialInputs ==
    {<<e, [BaseFile EXCEPT !.use_jira = j, !.repositories = r, !.whitelist = w]>> :
        e \in Envs, j \in BOOLEAN, r \in {BaseRepos, Null, Missing}, w \in {Null, Missing}}

\* every pair of whitelist and blacklist values
FilterInputs ==
    {<<FullEnv, [BaseFile EXCEPT !.whitelist = w, !.blacklist = b]>> :
        w \in {Null} \cup NameLists, b \in {Null} \cup NameLists}

\* every manual user map, under one whitelist and one blacklist
MapInputs ==
    {<<FullEnv, [BaseFile EXCEPT !.manually_resolve_users = m,
                                 !.whitelist = List(Interval(1, MaxListLen)),
                                 !.blacklist = List(Interval(MaxListLen, MaxListLen))]>> :
        m \in UserMaps}

\* every repository mapping
RepoInputs == {<<FullEnv, [BaseFile EXCEPT !.repositories = r]>> : r \in RepoMaps}

(***************************************************************************)
(* _config.__init__ (lines 26-49).  The result is the Settings object, or  *)
(* the way construction ended: sys.exit(1) or an uncaught KeyError.        *)
(***************************************************************************)
NoSettings ==
    [github_token |-> Unset, slack_token |-> Unset, jira_user |-> Unset,
     jira_pass |-> Unset, map_users |-> Missing, repositories |-> Missing,
     whitelist |-> Missing, blacklist |-> Missing, use_jira |-> FALSE,
     debug_uid |-> Unset]

\* lines 36-38: the only validation of __init__
TokensMissing(env) == env.SLACK_API_TOKEN = None \/ env.GITHUB_API_TOKEN = None

\* lines 40-43: configs[key] of a key the file does not have
KeyMissing(file) ==
    \/ file.manually_resolve_users.k = "missing"
    \/ file.repositories.k = "missing"
    \/ file.whitelist.k = "missing"
    \/ file.blacklist.k = "missing"

\* lines 29-49: the attributes __init__ assigns
Settings(env, file) ==
    [github_token |-> env.GITHUB_API_TOKEN,
     slack_token |-> env.SLACK_API_TOKEN,
     jira_user |-> IF file.use_jira THEN env.JIRA_USER ELSE Unset,
     jira_pass |-> IF file.use_jira THEN env.JIRA_PASS ELSE Unset,
     map_users |-> file.manually_resolve_users,
     repositories |-> file.repositories,
     whitelist |-> NormalizeList(file.whitelist),
     blacklist |-> NormalizeList(file.blacklist),
     use_jira |-> file.use_jira,
     debug_uid |-> env.DEBUG_UID]

ConstructionOutcome(env, file) ==
    IF TokensMissing(env) THEN "exited"
    ELSE IF KeyMissing(file) THEN "raised"
    ELSE "ready"

(***************************************************************************)
(* What one call through a wrapper did: the observation the claims are     *)
(* about.  `invoked` says whether the wrapped function was called, `first` *)
(* and `passed` are the positional arguments it got, `kw` the keyword      *)
(* arguments the wrapper added, `ret` what the wrapper returned (or the    *)
(* exception that left it), `logged` whether it wrote a log entry.         *)
(***************************************************************************)
NoCall ==
    [op |-> "none", arg |-> "-", name |-> 0, rest |-> "-", invoked |-> FALSE,
     first |-> <<>>, passed |-> "-", kw |-> {}, ret |-> <<"None">>, logged |-> FALSE]

\* the other arguments (*args, **kwargs) of a call, as one opaque value
Rest == {"args-a", "args-b"}

\* the wrapper called func(*first, *rest, **kw) and returned its result; `first` is
\* the tuple of the leading positional arguments the wrapper names
Invoke(op, arg, name, rest, first, kw, logged) ==
    [op |-> op, arg |-> arg, name |-> name, rest |-> rest, invoked |-> TRUE,
     first |-> first, passed |-> rest, kw |-> kw, ret |-> <<"result-of-func">>,
     logged |-> logged]

\* the wrapper returned None without calling func
ReturnNone(op, arg, name, rest, logged) ==
    [op |-> op, arg |-> arg, name |-> name, rest |-> rest, invoked |-> FALSE,
     first |-> <<>>, passed |-> "-", kw |-> {}, ret |-> <<"None">>, logged |-> logged]

\* an exception left the wrapper before func was called
Raise(op, arg, name, rest, exc) ==
    [op |-> op, arg |-> arg, name |-> name, rest |-> rest, invoked |-> FALSE,
     first |-> <<>>, passed |-> "-", kw |-> {}, ret |-> <<"raise", exc>>, logged |-> FALSE]

\* a generator object of repository_generator: where its frame stands ("none": no
\* such object, "created": not started, "yielded": suspended at line 74, "done":
\* returned, "raised"), its argument, its locals and what it has yielded so far
NoGen == [pc |-> "none", arg |-> Null, repositories |-> Null, i |-> 0, j |-> 0, out |-> <<>>]
GenIds == {"g1", "g2"}

Init ==
    /\ status = "start"
    /\ Configuration = NoSettings
    /\ blocked = {}
    /\ mapped = {}
    /\ blockLogs = [n \in Names |-> 0]
    /\ mapLogs = [n \in Names |-> 0]
    /\ last = NoCall
    /\ gens = [g \in GenIds |-> NoGen]

\* import of the module (lines 52-63): Configuration = _config(), blocked = set(),
\* mapped = set()
ImportModule(inputs) ==
    /\ status = "start"
    /\ \E in \in inputs :
         LET outcome == ConstructionOutcome(in[1], in[2]) IN
         /\ status' = outcome
         /\ Configuration' = IF outcome = "ready" THEN Settings(in[1], in[2]) ELSE NoSettings
    /\ UNCHANGED <<blocked, mapped, blockLogs, mapLogs, last, gens>>

(***************************************************************************)
(* restrict(list_type) (lines 77-100)                                      *)
(***************************************************************************)
ListTypes == {"blacklist", "whitelist", "other"}

\* the two attributes taken for each other
CollectionSwapped(list_type) ==
    IF list_type = "blacklist" THEN Configuration.whitelist
    ELSE IF list_type = "whitelist" THEN Configuration.blacklist
    ELSE Null

\* lines 81-86
Collection(list_type) ==
    IF list_type = "blacklist" THEN Configuration.blacklist
    ELSE IF list_type = "whitelist" THEN Configuration.whitelist
    ELSE Null

\* `name in collection`, of a collection that is truthy
Contains(collection, name) ==
    IF collection.k = "set" THEN name \in collection.v ELSE name \in Range(collection.v)

\* the wrapper without its sticky check
NeverAlreadyBlocked(name) == FALSE

\* line 88
AlreadyBlocked(name) == name \in blocked

\* the test without the whitelist inversion
DeniedWithoutInversion(list_type, name, collection) ==
    Truthy(collection) /\ Contains(collection, name)

\* the test without the membership
DeniedWheneverConfigured(list_type, name, collection) == Truthy(collection)

\* line 91: collection and ((list_type == 'whitelist') ^ (name in collection))
Denied(list_type, name, collection) ==
    Truthy(collection) /\ ((list_type = "whitelist") # Contains(collection, name))

\* blocked = {name} instead of blocked.add(name)
BlockedReplaced(name) == {name}

\* line 94: blocked.add(name)
BlockedAfterAdd(name) == blocked \cup {name}

\* lines 80-97: one call wrapper(name, *args, **kwargs) of a function decorated
\* with @restrict(list_type).  blockLogs counts the 'blocking lookup' entries of
\* line 93 per name; the count is kept below MaxLog so that the model is finite.
Restrict(list_type, name, rest) ==
    /\ status = "ready"
    /\ LET collection == Collection(list_type) IN
       IF AlreadyBlocked(name)
       THEN /\ last' = ReturnNone("restrict", list_type, name, rest, FALSE)
            /\ UNCHANGED <<blocked, blockLogs>>
       ELSE IF Denied(list_type, name, collection)
       THEN /\ blockLogs[name] < MaxLog
            /\ blockLogs' = [blockLogs EXCEPT ![name] = @ + 1]
            /\ blocked' = BlockedAfterAdd(name)
            /\ last' = ReturnNone("restrict", list_type, name, rest, TRUE)
       ELSE /\ last' = Invoke("restrict", list_type, name, rest, <<name>>, {}, FALSE)
            /\ UNCHANGED <<blocked, blockLogs>>
    /\ UNCHANGED <<status, Configuration, mapped, mapLogs, gens>>

(***************************************************************************)
(* manually_resolve (lines 142-154)                                        *)
(***************************************************************************)
\* the wrapper without its sticky check
NeverAlreadyMapped(name) == FALSE

\* line 145
AlreadyMapped(name) == name \in mapped

\* line 148: Configuration.map_users and name in Configuration.map_users
InManualMap(name) ==
    Truthy(Configuration.map_users) /\ name \in DOMAIN Configuration.map_users.v

\* Configuration.map_users[name] succeeds
CanLookUp(name) ==
    Configuration.map_users.k = "dict" /\ name \in DOMAIN Configuration.map_users.v

\* the first argument the wrapped function gets on the two mapping paths
\* (lines 146 and 149)
MappedName(name) == Configuration.map_users.v[name]

\* line 151: mapped.add(name)
MappedAfterAdd(name) == mapped \cup {name}

\* lines 144-153: one call wrapper(name, *args, **kwargs).  mapLogs counts the
\* entries of line 150 per name, kept below MaxLog as blockLogs is.
ManuallyResolve(name, rest) ==
    /\ status = "ready"
    /\ IF AlreadyMapped(name)
       THEN /\ last' = IF CanLookUp(name)
                       THEN Invoke("manually_resolve", "-", name, rest,
                                   <<MappedName(name)>>, {}, FALSE)
                       ELSE Raise("manually_resolve", "-", name, rest,
                                  IF Configuration.map_users.k = "dict"
                                  THEN "KeyError" ELSE "TypeError")
            /\ UNCHANGED <<mapped, mapLogs>>
       ELSE IF InManualMap(name)
       THEN /\ mapLogs[name] < MaxLog
            /\ mapLogs' = [mapLogs EXCEPT ![name] = @ + 1]
            /\ mapped' = MappedAfterAdd(name)
            /\ last' = Invoke("manually_resolve", "-", name, rest,
                              <<MappedName(name)>>, {}, TRUE)
       ELSE /\ last' = Invoke("manually_resolve", "-", name, rest, <<name>>, {}, FALSE)
            /\ UNCHANGED <<mapped, mapLogs>>
    /\ UNCHANGED <<status, Configuration, blocked, blockLogs, gens>>

(***************************************************************************)
(* with_credentials(service) (lines 103-115), with_token(service) (lines   *)
(* 118-130), get_header (157-162), get_slack_token (165-166)               *)
(***************************************************************************)
Services == {"Github", "Slack", "Jira"}

\* lines 122-125
Token(service) ==
    IF service = "Github" THEN Configuration.github_token ELSE Configuration.slack_token

\* lines 121-128: one call wrapper(*args, **kwargs)
WithToken(service, rest) ==
    /\ status = "ready"
    /\ last' = Invoke("with_token", service, 0, rest, <<>>, {<<"_token", Token(service)>>}, FALSE)
    /\ UNCHANGED <<status, Configuration, blocked, mapped, blockLogs, mapLogs, gens>>

\* lines 107-112: the exception the wrapper's own statements raise, or "ok".
\* With service # 'Jira' neither usr nor pwd is bound when line 111 reads usr;
\* with use_jira false __init__ never assigned jira_user (lines 31-34).
CredentialsFailure(service) ==
    IF service # "Jira" THEN "UnboundLocalError"
    ELSE IF Configuration.jira_user = Unset \/ Configuration.jira_pass = Unset
    THEN "AttributeError"
    ELSE "ok"

\* lines 106-113: one call wrapper(*args, **kwargs)
WithCredentials(service, rest) ==
    /\ status = "ready"
    /\ last' = IF CredentialsFailure(service) = "ok"
               THEN Invoke("with_credentials", service, 0, rest, <<>>,
                           {<<"_usr", Configuration.jira_user>>,
                            <<"_pwd", Configuration.jira_pass>>}, FALSE)
               ELSE Raise("with_credentials", service, 0, rest, CredentialsFailure(service))
    /\ UNCHANGED <<status, Configuration, blocked, mapped, blockLogs, mapLogs, gens>>

\* lines 157-162: make_header() through with_token(service)
GetHeader(service) ==
    /\ status = "ready"
    /\ last' = [Invoke("get_header", service, 0, "-", <<>>, {<<"_token", Token(service)>>}, FALSE)
                 EXCEPT !.ret = <<"Authorization", "Bearer", Token(service)>>]
    /\ UNCHANGED <<status, Configuration, blocked, mapped, blockLogs, mapLogs, gens>>

\* lines 165-166
GetSlackToken ==
    /\ status = "ready"
    /\ last' = [ReturnNone("get_slack_token", "-", 0, "-", FALSE)
                 EXCEPT !.ret = <<"value", Configuration.slack_token>>]
    /\ UNCHANGED <<status, Configuration, blocked, mapped, blockLogs, mapLogs, gens>>

(***************************************************************************)
(* repositories (lines 133-139) and debug (lines 169-173)                  *)
(***************************************************************************)
\* the keys of a repository mapping, and the value of one
OwnersOf(repos) == {repos.v[i].owner : i \in DOMAIN repos.v}
ReposOf(repos, owner) == (CHOOSE i \in DOMAIN repos.v : repos.v[i].owner = owner)

\* lines 135-138: one call wrapper(organization, *args, **kwargs)
Repositories(organization, rest) ==
    /\ status = "ready"
    /\ last' = LET repos == Configuration.repositories IN
               IF repos.k # "dict"
               THEN Raise("repositories", "-", organization, rest, "TypeError")
               ELSE IF organization \notin OwnersOf(repos)
               THEN Raise("repositories", "-", organization, rest, "KeyError")
               ELSE Invoke("repositories", "-", organization, rest, <<organization>>,
                           {<<"_repositories", repos.v[ReposOf(repos, organization)].repos>>},
                           FALSE)
    /\ UNCHANGED <<status, Configuration, blocked, mapped, blockLogs, mapLogs, gens>>

\* lines 171-172: one call wrapper(uid, *args, **kwargs); uid is dropped
Debug(rest) ==
    /\ status = "ready"
    /\ last' = Invoke("debug", "-", 0, rest, <<Configuration.debug_uid>>, {}, FALSE)
    /\ UNCHANGED <<status, Configuration, blocked, mapped, blockLogs, mapLogs, gens>>

(***************************************************************************)
(* The calls of the module, after import.                                  *)
(***************************************************************************)
Calls ==
    \/ \E t \in ListTypes, n \in Names, r \in Rest : Restrict(t, n, r)
    \/ \E n \in Names, r \in Rest : ManuallyResolve(n, r)
    \/ \E s \in Services, r \in Rest : WithToken(s, r)
    \/ \E s \in Services, r \in Rest : WithCredentials(s, r)
    \/ \E s \in Services : GetHeader(s)
    \/ GetSlackToken
    \/ \E o \in Owners, r \in Rest : Repositories(o, r)
    \/ \E r \in Rest : Debug(r)

(***************************************************************************)
(* repository_generator (lines 66-74)                                      *)
(***************************************************************************)
\* a mapping whose first owner has no repository
ArgRepos == Dict(RepoItems([i \in 1..MaxOwners |-> IF i = 1 THEN 0 ELSE MaxRepos]))

\* the `repos` arguments tried: none, an empty mapping, a mapping
GenArgs == {Null, Dict(<<>>), ArgRepos}

\* `if not repos` instead of `if repos is None`
ChosenIfFalsy(repos) == IF ~Truthy(repos) THEN Configuration.repositories ELSE repos

\* lines 67-70
ChosenRepositories(repos) == IF repos.k = "null" THEN Configuration.repositories ELSE repos

\* lines 72-74: the place of the next yield at or after item i, repository j, or
\* <<0, 0>> when both loops are over
RECURSIVE NextYield(_, _, _)
NextYield(items, i, j) ==
    IF i > Len(items) THEN <<0, 0>>
    ELSE IF j <= Len(items[i].repos) THEN <<i, j>>
    ELSE NextYield(items, i + 1, 1)

\* the generator object after running from where it stands to its next yield or
\* to its end
Resume(gen, repositories, i, j) ==
    IF repositories.k # "dict"
    THEN [gen EXCEPT !.pc = "raised", !.repositories = repositories]
    ELSE LET at == NextYield(repositories.v, i, j) IN
         IF at = <<0, 0>>
         THEN [gen EXCEPT !.pc = "done", !.repositories = repositories, !.i = 0, !.j = 0]
         ELSE [gen EXCEPT !.pc = "yielded", !.repositories = repositories,
                          !.i = at[1], !.j = at[2],
                          !.out = Append(@, <<repositories.v[at[1]].owner,
                                              repositories.v[at[1]].repos[at[2]]>>)]

\* repository_generator(repos): a new generator object; its body has not run
GenCall(g, repos) ==
    /\ status = "ready"
    /\ gens' = [gens EXCEPT ![g] = [NoGen EXCEPT !.pc = "created", !.arg = repos]]
    /\ UNCHANGED <<status, Configuration, blocked, mapped, blockLogs, mapLogs, last>>

\* next(g) on a generator that has not ended
GenNext(g) ==
    /\ status = "ready"
    /\ gens[g].pc \in {"created", "yielded"}
    /\ gens' = [gens EXCEPT ![g] =
                  IF gens[g].pc = "created"
                  THEN Resume(@, ChosenRepositories(@.arg), 1, 1)
                  ELSE Resume(@, @.repositories, @.i, @.j + 1)]
    /\ UNCHANGED <<status, Configuration, blocked, mapped, blockLogs, mapLogs, last>>

GenCalls(ids) ==
    \/ \E g \in ids, a \in GenArgs : GenCall(g, a)
    \/ \E g \in ids : GenNext(g)

Next ==
    \/ ImportModule(CredentialInputs \cup FilterInputs \cup MapInputs)
    \/ Calls

Spec == Init /\ [][Next]_vars

\* the generators alone, two of them, over every repository mapping
GenNext2 ==
    \/ ImportModule(RepoInputs)
    \/ GenCalls(GenIds)

GenSpec == Init /\ [][GenNext2]_vars

\* every operation of the module together, over the manual-map configurations
FrameNext ==
    \/ ImportModule(MapInputs)
    \/ Calls
    \/ GenCalls({"g1"})

FrameSpec == Init /\ [][FrameNext]_vars

(***************************************************************************)
(* What the claims say of a call                                           *)
(***************************************************************************)
\* the call recorded in c reached the wrapped function with `first` as its leading
\* arguments, the other arguments as given, and returned the function's result
PassedThrough(c, first) ==
    /\ c.invoked
    /\ c.first = first
    /\ c.passed = c.rest
    /\ c.ret = <<"result-of-func">>

\* the call recorded in c returned None and never reached the wrapped function
WasBlocked(c) == ~c.invoked /\ c.ret = <<"None">>

\* a configured collection that names nobody: null or empty
NoNames(collection) ==
    \/ collection.k = "null"
    \/ collection.k = "list" /\ collection.v = <<>>
    \/ collection.k = "set" /\ collection.v = {}

\* a collection that is configured and non-empty, and its names
Configured(collection) == collection.k \in {"list", "set"} /\ ~NoNames(collection)
NamesIn(collection) == IF collection.k = "set" THEN collection.v ELSE Range(collection.v)

\* the keys of the manual user map
MapKeys ==
    IF Configuration.map_users.k = "dict" THEN DOMAIN Configuration.map_users.v ELSE {}

\* C1: once a name is in the blocked set, every later call with it through a
\* restrict wrapper of any list type returns None, does not invoke the wrapped
\* function and logs nothing, so that no name is logged as blocked twice.
C1_StickySuppression ==
    [][/\ \A n \in Names :
            (n \in blocked /\ last'.op = "restrict" /\ last'.name = n)
                => (WasBlocked(last') /\ ~last'.logged /\ blockLogs' = blockLogs)
       /\ \A n \in Names : blockLogs'[n] <= 1]_vars

\* a blocked name was refused silently by a wrapper that filters nothing itself
C1_Witness ==
    /\ last.op = "restrict"
    /\ last.arg = "other"
    /\ last.name \in blocked
    /\ WasBlocked(last)
    /\ ~last.logged

\* C2 as claimed: wherever a Settings object exists, both tokens are set and,
\* when use_jira is true, so are the Jira user and password.
C2_SettingsValidated ==
    status = "ready" =>
        /\ Configuration.github_token # None
        /\ Configuration.slack_token # None
        /\ Configuration.use_jira =>
              (Configuration.jira_user # None /\ Configuration.jira_pass # None)

\* C3 as claimed: through a whitelist wrapper with a non-empty whitelist, a
\* whitelisted name always reaches the wrapped function, whatever came before;
\* any other name is blocked and is in the blocked set.
C3_WhitelistAnyHistory ==
    (status = "ready" /\ last.op = "restrict" /\ last.arg = "whitelist"
        /\ Configured(Configuration.whitelist))
    => IF last.name \in NamesIn(Configuration.whitelist)
       THEN PassedThrough(last, <<last.name>>)
       ELSE WasBlocked(last) /\ last.name \in blocked

\* C3, amended: through a whitelist wrapper with a non-empty whitelist, a call
\* with a name already in the blocked set is blocked silently; otherwise a
\* whitelisted name reaches the wrapped function with the original arguments and
\* its result is returned, and any other name is blocked, logged and added to the
\* blocked set.
C3_Whitelist ==
    [][(last'.op = "restrict" /\ last'.arg = "whitelist"
            /\ Configured(Configuration.whitelist))
       => IF last'.name \in blocked
          THEN WasBlocked(last') /\ ~last'.logged /\ blocked' = blocked
          ELSE IF last'.name \in NamesIn(Configuration.whitelist)
          THEN PassedThrough(last', <<last'.name>>) /\ ~last'.logged /\ blocked' = blocked
          ELSE WasBlocked(last') /\ last'.logged
               /\ blocked' = blocked \cup {last'.name}]_vars

\* a whitelisted name passed while another name was already blocked
C3_Witness ==
    /\ status = "ready"
    /\ last.op = "restrict"
    /\ last.arg = "whitelist"
    /\ Configured(Configuration.whitelist)
    /\ last.name \in NamesIn(Configuration.whitelist)
    /\ PassedThrough(last, <<last.name>>)
    /\ blocked # {}

\* C4 as claimed: through a blacklist wrapper with a non-empty blacklist, a
\* blacklisted name is blocked and in the blocked set, and any other name always
\* reaches the wrapped function, whatever came before.
C4_BlacklistAnyHistory ==
    (status = "ready" /\ last.op = "restrict" /\ last.arg = "blacklist"
        /\ Configured(Configuration.blacklist))
    => IF last.name \in NamesIn(Configuration.blacklist)
       THEN WasBlocked(last) /\ last.name \in blocked
       ELSE PassedThrough(last, <<last.name>>)

\* C4, amended: through a blacklist wrapper with a non-empty blacklist, a
\* blacklisted name is blocked and is in the blocked set afterwards; a name absent
\* from the blacklist reaches the wrapped function with the original arguments,
\* and its result is returned, unless it is already in the blocked set, in which
\* case it is blocked silently.
C4_Blacklist ==
    [][(last'.op = "restrict" /\ last'.arg = "blacklist"
            /\ Configured(Configuration.blacklist))
       => IF last'.name \in NamesIn(Configuration.blacklist)
          THEN WasBlocked(last') /\ last'.name \in blocked'
          ELSE IF last'.name \in blocked
          THEN WasBlocked(last') /\ ~last'.logged /\ blocked' = blocked
          ELSE PassedThrough(last', <<last'.name>>) /\ blocked' = blocked]_vars

\* a name absent from the blacklist passed while another name was already blocked
C4_Witness ==
    /\ status = "ready"
    /\ last.op = "restrict"
    /\ last.arg = "blacklist"
    /\ Configured(Configuration.blacklist)
    /\ last.name \notin NamesIn(Configuration.blacklist)
    /\ PassedThrough(last, <<last.name>>)
    /\ blocked # {}

\* C5: when neither whitelist nor blacklist names anybody (null or an empty
\* list), the blocked set stays empty and every call through a restrict wrapper
\* reaches the wrapped function with the name and arguments unchanged.
C5_NoCollectionNoFiltering ==
    (status = "ready" /\ NoNames(Configuration.whitelist)
        /\ NoNames(Configuration.blacklist))
    => /\ blocked = {}
       /\ last.op = "restrict" => (PassedThrough(last, <<last.name>>) /\ ~last.logged)

\* a call through a whitelist wrapper passed with an empty list as the whitelist
C5_Witness ==
    /\ status = "ready"
    /\ Configuration.whitelist.k = "list"
    /\ NoNames(Configuration.whitelist)
    /\ NoNames(Configuration.blacklist)
    /\ last.op = "restrict"
    /\ last.arg = "whitelist"
    /\ PassedThrough(last, <<last.name>>)

\* C6: a call through manually_resolve with a key of the manual map invokes the
\* wrapped function once with the mapped name, the other arguments unchanged, and
\* logs only when it adds the name to the mapped set; a call with any other name
\* invokes it with the name unchanged and leaves the mapped set alone.  No name is
\* logged twice.
C6_RemapSticky ==
    [][/\ last'.op = "manually_resolve" =>
            IF last'.name \in MapKeys
            THEN /\ PassedThrough(last', <<Configuration.map_users.v[last'.name]>>)
                 /\ last'.logged <=> last'.name \notin mapped
                 /\ mapped' = mapped \cup {last'.name}
            ELSE /\ PassedThrough(last', <<last'.name>>)
                 /\ ~last'.logged
                 /\ mapped' = mapped
       /\ \A n \in Names : mapLogs'[n] <= 1]_vars

\* a second call with a mapped name: remapped again, not logged again
C6_Witness ==
    /\ last.op = "manually_resolve"
    /\ last.name \in mapped
    /\ last.invoked
    /\ last.first = <<Configuration.map_users.v[last.name]>>
    /\ last.first # <<last.name>>
    /\ ~last.logged

\* C7 as claimed: a call through a with_token or with_credentials wrapper always
\* reaches the wrapped function, with the arguments unchanged and the token, or
\* the Jira user and password, added.
C7_InjectionNeverFails ==
    /\ (status = "ready" /\ last.op = "with_token") =>
          /\ PassedThrough(last, <<>>)
          /\ last.kw = {<<"_token", IF last.arg = "Github"
                                    THEN Configuration.github_token
                                    ELSE Configuration.slack_token>>}
    /\ (status = "ready" /\ last.op = "with_credentials") =>
          /\ PassedThrough(last, <<>>)
          /\ last.kw = {<<"_usr", Configuration.jira_user>>,
                        <<"_pwd", Configuration.jira_pass>>}

\* the (owner, repository) pairs of a mapping, owner by owner
RECURSIVE PairsFrom(_, _)
PairsFrom(items, i) ==
    IF i > Len(items) THEN <<>>
    ELSE [j \in 1..Len(items[i].repos) |-> <<items[i].owner, items[i].repos[j]>>]
         \o PairsFrom(items, i + 1)

IsPrefix(s, t) == Len(s) <= Len(t) /\ \A i \in 1..Len(s) : s[i] = t[i]

\* the mapping a generator object walks: its argument, or the configured
\* repositories when it was given none
MappingOf(gen) ==
    IF gen.arg.k = "dict" THEN gen.arg.v
    ELSE IF Configuration.repositories.k = "dict" THEN Configuration.repositories.v
    ELSE <<>>

\* C8: whatever the other generator does, a generator has always yielded a
\* prefix of the pairs of its mapping, in owner-then-repository order; it ends
\* exactly when it has yielded them all; a step of one generator leaves the
\* other as it was.
C8_GeneratorRestartable ==
    [][\A g \in GenIds :
        /\ gens'[g].pc \in {"none", "created", "yielded", "done"}
        /\ IsPrefix(gens'[g].out, PairsFrom(MappingOf(gens'[g]), 1))
        /\ gens'[g].pc = "done" => gens'[g].out = PairsFrom(MappingOf(gens'[g]), 1)
        /\ (gens[g].pc \in {"created", "yielded"} /\ gens'[g] # gens[g]
                /\ gens'[g].pc # "created")
           => /\ gens'[g].arg = gens[g].arg
              /\ IF gens[g].out = PairsFrom(MappingOf(gens[g]), 1)
                 THEN gens'[g].pc = "done" /\ gens'[g].out = gens[g].out
                 ELSE gens'[g].pc = "yielded" /\ Len(gens'[g].out) = Len(gens[g].out) + 1
        /\ gens'[g] # gens[g] => \A h \in GenIds \ {g} : gens'[h] = gens[h]]_vars

\* two generators over the configured mapping: one has ended after yielding
\* several pairs, the other is still at its first pair
C8_Witness ==
    /\ gens["g1"].pc = "done"
    /\ gens["g1"].arg = Null
    /\ Len(gens["g1"].out) >= 2
    /\ gens["g2"].pc = "yielded"
    /\ gens["g2"].arg = Null
    /\ Len(gens["g2"].out) = 1

\* C9: the blocked and the mapped set never lose an element; a step that changes
\* the blocked set is a restrict call that adds its name to it, a step that
\* changes the mapped set is a manually_resolve call that adds its name to it,
\* neither changes the other set, and no call changes the Settings object.
C9_AppendOnlySingleWriter ==
    [][/\ blocked \subseteq blocked'
       /\ mapped \subseteq mapped'
       /\ blocked' # blocked =>
            /\ last'.op = "restrict"
            /\ blocked' = blocked \cup {last'.name}
            /\ mapped' = mapped
            /\ gens' = gens
       /\ mapped' # mapped =>
            /\ last'.op = "manually_resolve"
            /\ mapped' = mapped \cup {last'.name}
            /\ blocked' = blocked
            /\ gens' = gens
       /\ status = "ready" => Configuration' = Configuration]_vars

\* both sets hold names, a generator has run to its end and the last call was
\* one of the calls that write neither set
C9_Witness ==
    /\ Cardinality(blocked) >= 2
    /\ mapped # {}
    /\ gens["g1"].pc = "done"
    /\ last.op = "with_token"

\* C10: the mapped set holds only keys of the manual user map, and every blocked
\* name is absent from a configured non-empty whitelist or present in a
\* configured non-empty blacklist.
C10_StickySetsJustified ==
    /\ mapped \subseteq MapKeys
    /\ \A n \in blocked :
          \/ Configured(Configuration.whitelist)
               /\ n \notin NamesIn(Configuration.whitelist)
          \/ Configured(Configuration.blacklist)
               /\ n \in NamesIn(Configuration.blacklist)

\* names are blocked and names are mapped
C10_Witness == blocked # {} /\ mapped # {}

====
